---- MODULE Spec2Model ----
(***************************************************************************)
(* Model of the password-change rate limiter, of the change-password       *)
(* action that uses it, and of the background video-analysis job.          *)
(***************************************************************************)
EXTENDS Integers, Sequences, FiniteSets, TLC

(***************************************************************************)
(* Bounds of the model.                                                    *)
(***************************************************************************)
\* the clock takes the values 0, TickMs, ..., MaxTicks * TickMs
MaxTicks == 3
\* the frame extraction returns at most MaxFrames frames
MaxFrames == 3
\* the vision model returns at most MaxSteps steps
MaxSteps == 3
\* at most MaxLog calls of record are followed at a time (a reset of an actor
\* forgets the actor's calls)
MaxLog == 6

(***************************************************************************)
(* Program constants of the rate limiter.                                  *)
(***************************************************************************)
MAX_ATTEMPTS == 5
WINDOW_MS == 15 * 60 * 1000

\* granularity of the modelled clock: half a window, so that an entry's age
\* can be below, equal to and above WINDOW_MS
TickMs == WINDOW_MS \div 2

Actors == {"u1", "u2"}

VARIABLES
    rateLimitStore,   \* Map<string, RateLimitEntry>: a function on the stored keys
    now,              \* Date.now()
    last,             \* the last call on the limiter with what it returned
    recLog,           \* per actor, the times of the record calls since its last reset
    req,              \* the change-password requests in flight
    video,            \* the work_videos row of the job's video
    workflow,         \* the work_workflows row of the job's workflow
    stepRows,         \* the work_analysis_steps rows
    job,              \* the background task: its position and its locals
    trail,            \* the operations the job has performed, in order
    shadow,           \* the limiter's store under the two other sweep schedules
    parse,            \* a model response and what extractJson made of it
    workTeamMembers,  \* the work_team_members row of each team and email
    workTeamInvites,  \* the work_team_invites rows, in the order of their insertion
    today,            \* new Date(), in days
    inviteLast,       \* the last POST members request and its response
    workVideos,       \* the work_videos rows: owner and file size
    workWorkflows,    \* per owner, the number of work_workflows rows
    signedUrls,       \* the owners of the paths a signed upload URL was issued for
    quotaLast         \* the last quota check or upload-url request and its outcome

limVars == <<rateLimitStore, now, last, recLog>>

jobVars == <<video, workflow, stepRows, job, trail>>

teamVars == <<workTeamMembers, workTeamInvites, today, inviteLast>>

quotaVars == <<workVideos, workWorkflows, signedUrls, quotaLast>>

auxVars == <<shadow, parse, teamVars, quotaVars>>

vars == <<rateLimitStore, now, last, recLog, req, video, workflow, stepRows, job, trail,
          shadow, parse, workTeamMembers, workTeamInvites, today, inviteLast,
          workVideos, workWorkflows, signedUrls, quotaLast>>

(***************************************************************************)
(* The limiter's functions, as functions of the store and of the clock.    *)
(***************************************************************************)
\* faulty variant: the window test compares the age with a span no entry reaches
IsExpiredNever(entry, t) == t - entry.firstAttempt > WINDOW_MS + MaxTicks * TickMs

\* faulty variant: an entry is taken as expired when its age reaches the window
IsExpiredAtWindow(entry, t) == t - entry.firstAttempt >= WINDOW_MS

IsExpired(entry, t) == t - entry.firstAttempt > WINDOW_MS

cleanupExpiredEntries(store, t) ==
    [key \in {k \in DOMAIN store : ~IsExpired(store[k], t)} |-> store[key]]

\* the sweep of a check call: rnd is the outcome of Math.random() < 0.1
MaybeCleanup(store, t, rnd) ==
    IF rnd THEN cleanupExpiredEntries(store, t) ELSE store

\* faulty variant: the limit test lets one attempt too many through
checkAllowsAtLimit(store, t, userId) ==
    IF userId \notin DOMAIN store \/ IsExpired(store[userId], t)
    THEN [allowed |-> TRUE,
          remainingAttempts |-> MAX_ATTEMPTS,
          resetTime |-> t + WINDOW_MS]
    ELSE [allowed |-> store[userId].count <= MAX_ATTEMPTS,
          remainingAttempts |->
              IF MAX_ATTEMPTS - store[userId].count > 0
              THEN MAX_ATTEMPTS - store[userId].count ELSE 0,
          resetTime |-> store[userId].firstAttempt + WINDOW_MS]

\* faulty variant: every stored entry is taken as live, the sweep being
\* trusted to have removed the expired ones
checkTrustsSweep(store, t, userId) ==
    IF userId \notin DOMAIN store
    THEN [allowed |-> TRUE,
          remainingAttempts |-> MAX_ATTEMPTS,
          resetTime |-> t + WINDOW_MS]
    ELSE [allowed |-> store[userId].count < MAX_ATTEMPTS,
          remainingAttempts |->
              IF MAX_ATTEMPTS - store[userId].count > 0
              THEN MAX_ATTEMPTS - store[userId].count ELSE 0,
          resetTime |-> store[userId].firstAttempt + WINDOW_MS]

checkPasswordChangeRateLimit(store, t, userId) ==
    IF userId \notin DOMAIN store \/ IsExpired(store[userId], t)
    THEN [allowed |-> TRUE,
          remainingAttempts |-> MAX_ATTEMPTS,
          resetTime |-> t + WINDOW_MS]
    ELSE [allowed |-> store[userId].count < MAX_ATTEMPTS,
          remainingAttempts |->
              IF MAX_ATTEMPTS - store[userId].count > 0
              THEN MAX_ATTEMPTS - store[userId].count ELSE 0,
          resetTime |-> store[userId].firstAttempt + WINDOW_MS]

\* faulty variant: every attempt starts the window anew
recordSlidesWindow(store, t, userId) ==
    IF userId \notin DOMAIN store \/ IsExpired(store[userId], t)
    THEN [key \in DOMAIN store \cup {userId} |->
            IF key = userId THEN [count |-> 1, firstAttempt |-> t]
            ELSE store[key]]
    ELSE [store EXCEPT ![userId].count = @ + 1, ![userId].firstAttempt = t]

\* faulty variant: the count stops at the limit
recordCapsAtLimit(store, t, userId) ==
    IF userId \notin DOMAIN store \/ IsExpired(store[userId], t)
    THEN [key \in DOMAIN store \cup {userId} |->
            IF key = userId THEN [count |-> 1, firstAttempt |-> t]
            ELSE store[key]]
    ELSE [store EXCEPT ![userId].count =
              IF @ < MAX_ATTEMPTS THEN @ + 1 ELSE MAX_ATTEMPTS]

recordPasswordChangeAttempt(store, t, userId) ==
    IF userId \notin DOMAIN store \/ IsExpired(store[userId], t)
    THEN [key \in DOMAIN store \cup {userId} |->
            IF key = userId THEN [count |-> 1, firstAttempt |-> t]
            ELSE store[key]]
    ELSE [store EXCEPT ![userId].count = @ + 1]

\* faulty variant: the attempt is recorded before the limit is tested
requireRecordsFirst(store, t, userId, rnd) ==
    LET swept == recordPasswordChangeAttempt(MaybeCleanup(store, t, rnd), t, userId)
        c == checkPasswordChangeRateLimit(swept, t, userId)
    IN IF ~c.allowed
       THEN [thrown |-> TRUE, status |-> 429, resetTime |-> c.resetTime,
             remainingAttempts |-> 0, store |-> swept]
       ELSE [thrown |-> FALSE, status |-> 200, resetTime |-> c.resetTime,
             remainingAttempts |-> c.remainingAttempts - 1,
             store |-> swept]

\* the guard: what it returns (thrown: the 429 response) and the store it leaves
requirePasswordChangeRateLimit(store, t, userId, rnd) ==
    LET swept == MaybeCleanup(store, t, rnd)
        c == checkPasswordChangeRateLimit(swept, t, userId)
    IN IF ~c.allowed
       THEN [thrown |-> TRUE, status |-> 429, resetTime |-> c.resetTime,
             remainingAttempts |-> 0, store |-> swept]
       ELSE [thrown |-> FALSE, status |-> 200, resetTime |-> c.resetTime,
             remainingAttempts |-> c.remainingAttempts - 1,
             store |-> recordPasswordChangeAttempt(swept, t, userId)]

\* faulty variant: the reset deletes nothing
resetKeepsEntry(store, userId) == store

resetPasswordChangeRateLimit(store, userId) ==
    [key \in DOMAIN store \ {userId} |-> store[key]]

(***************************************************************************)
(* The database rows and the background task of one analysis job.          *)
(***************************************************************************)
NoVideo == [exists |-> FALSE, status |-> "none", progress |-> 0,
            error_message |-> "", completed_at |-> FALSE, storage_path |-> ""]

UploadedVideo(path) == [exists |-> TRUE, status |-> "uploaded", progress |-> 0,
                        error_message |-> "", completed_at |-> FALSE,
                        storage_path |-> path]

PendingWorkflow == [status |-> "pending", completed_at |-> FALSE]

\* answers: what each model of the preference list answers when it is called;
\* tried: the models called so far
IdleJob == [pc |-> "idle", error |-> "none", path |-> "", frames |-> 0,
            answers |-> << >>, tried |-> 0,
            steps |-> << >>, urls |-> << >>, results |-> << >>,
            tmpVideo |-> FALSE, tmpFrames |-> FALSE]

\* no job: the state of the job's variables in the specifications of the limiter
NoJob ==
    /\ video = NoVideo
    /\ workflow = PendingWorkflow
    /\ stepRows = << >>
    /\ job = IdleJob
    /\ trail = << >>

\* what a caller sees of a call of check or of the guard
NoResult == [allowed |-> TRUE, remainingAttempts |-> 0, resetTime |-> 0,
             thrown |-> FALSE]

\* never, always: the store as it is when no check sweeps and when every
\* check sweeps; lastNever, lastAlways: what the last call returned there
NoShadow == [never |-> << >>, always |-> << >>, lastNever |-> NoResult,
             lastAlways |-> NoResult]

NoParse == [pc |-> "none", object |-> << >>, before |-> << >>, after |-> << >>,
            result |-> << >>]

Teams == {"t1", "t2"}

Emails == {"a", "b"}

Owners == {"u1", "u2"}

\* no member row for a team and an email; of a row, the columns that the
\* action reads: invited_by and invited_at are written and never read
NoRow == [status |-> "none", role |-> "none", user_id |-> "none"]

NoReply == [status |-> 0, teamId |-> "", email |-> "", token |-> 0]

NoTeam ==
    /\ workTeamMembers = [pair \in Teams \X Emails |-> NoRow]
    /\ workTeamInvites = << >>
    /\ today = 0
    /\ inviteLast = NoReply

\* a JavaScript number: NaN, or a value
Num(v) == [nan |-> FALSE, value |-> v]

NaN == [nan |-> TRUE, value |-> 0]

NoCheck == [op |-> "none", userId |-> "none", size |-> Num(0), queryOk |-> TRUE,
            thrown |-> "none", status |-> 0, url |-> FALSE]

NoQuota ==
    /\ workVideos = << >>
    /\ workWorkflows = [u \in Owners |-> 0]
    /\ signedUrls = {}
    /\ quotaLast = NoCheck

\* the variables of the other specifications, at rest
NoAux == shadow = NoShadow /\ parse = NoParse /\ NoTeam /\ NoQuota

(***************************************************************************)
(* Calls on the limiter.                                                   *)
(***************************************************************************)
\* a call and what it returned.  follows: whether the call came right after
\* a reset of the same actor ("reset"), one that cleared a blocking entry
\* ("resetOfBlocked"), or not ("other"); cleared: a reset that removed a
\* blocking entry
NoCall == [op |-> "none", userId |-> "none", allowed |-> TRUE,
           remainingAttempts |-> 0, resetTime |-> 0, thrown |-> FALSE,
           follows |-> "other", cleared |-> FALSE]

\* the actor holds a live entry that has used up its attempts
Blocked(store, t, userId) ==
    /\ userId \in DOMAIN store
    /\ ~IsExpired(store[userId], t)
    /\ store[userId].count >= MAX_ATTEMPTS

Follows(u) ==
    IF last.op = "reset" /\ last.userId = u
    THEN (IF last.cleared THEN "resetOfBlocked" ELSE "reset")
    ELSE "other"

\* the number of record calls followed
LogSize == Len(recLog["u1"]) + Len(recLog["u2"])

InitLimiter ==
    /\ rateLimitStore = << >>
    /\ now = 0
    /\ last = NoCall
    /\ recLog = [u \in Actors |-> << >>]

TickClock ==
    /\ now < MaxTicks * TickMs
    /\ now' = now + TickMs
    /\ UNCHANGED <<rateLimitStore, last, recLog>>

Tick == TickClock /\ UNCHANGED <<req, jobVars, auxVars>>

CheckCall(u) ==
    \E rnd \in BOOLEAN :
        LET swept == MaybeCleanup(rateLimitStore, now, rnd)
            c == checkPasswordChangeRateLimit(swept, now, u)
        IN /\ rateLimitStore' = swept
           /\ last' = [NoCall EXCEPT !.op = "check", !.userId = u,
                           !.allowed = c.allowed,
                           !.remainingAttempts = c.remainingAttempts,
                           !.resetTime = c.resetTime,
                           !.follows = Follows(u)]
           /\ UNCHANGED <<now, recLog>>

RecordCall(u) ==
    /\ LogSize < MaxLog
    /\ rateLimitStore' = recordPasswordChangeAttempt(rateLimitStore, now, u)
    /\ recLog' = [recLog EXCEPT ![u] = Append(@, now)]
    /\ last' = [NoCall EXCEPT !.op = "record", !.userId = u]
    /\ UNCHANGED now

GuardCall(u) ==
    \E rnd \in BOOLEAN :
        LET g == requirePasswordChangeRateLimit(rateLimitStore, now, u, rnd)
        IN /\ g.thrown \/ LogSize < MaxLog
           /\ rateLimitStore' = g.store
           /\ recLog' = IF g.thrown THEN recLog
                        ELSE [recLog EXCEPT ![u] = Append(@, now)]
           /\ last' = [NoCall EXCEPT !.op = "guard", !.userId = u,
                           !.allowed = ~g.thrown,
                           !.remainingAttempts = g.remainingAttempts,
                           !.resetTime = g.resetTime,
                           !.thrown = g.thrown]
           /\ UNCHANGED now

ResetCall(u) ==
    /\ rateLimitStore' = resetPasswordChangeRateLimit(rateLimitStore, u)
    /\ recLog' = [recLog EXCEPT ![u] = << >>]
    /\ last' = [NoCall EXCEPT !.op = "reset", !.userId = u,
                              !.cleared = Blocked(rateLimitStore, now, u)]
    /\ UNCHANGED now

\* every exported function called in any order by any actor
Next ==
    \/ Tick
    \/ \E u \in Actors : CheckCall(u) /\ UNCHANGED <<req, jobVars, auxVars>>
    \/ \E u \in Actors : RecordCall(u) /\ UNCHANGED <<req, jobVars, auxVars>>
    \/ \E u \in Actors : GuardCall(u) /\ UNCHANGED <<req, jobVars, auxVars>>
    \/ \E u \in Actors : ResetCall(u) /\ UNCHANGED <<req, jobVars, auxVars>>

Init == InitLimiter /\ req = << >> /\ NoJob /\ NoAux

Spec == Init /\ [][Next]_vars

\* the limiter as the change-password action uses it: attempts are recorded
\* by the guard alone
NextGuard ==
    \/ Tick
    \/ \E u \in Actors : CheckCall(u) /\ UNCHANGED <<req, jobVars, auxVars>>
    \/ \E u \in Actors : GuardCall(u) /\ UNCHANGED <<req, jobVars, auxVars>>
    \/ \E u \in Actors : ResetCall(u) /\ UNCHANGED <<req, jobVars, auxVars>>

SpecGuard == Init /\ [][NextGuard]_vars

(***************************************************************************)
(* The limiter run with three sweep schedules at once: the calls of Spec   *)
(* are made on the store whose checks sweep now and then, on a store whose *)
(* checks never sweep and on a store whose checks always sweep.            *)
(***************************************************************************)
ResultOfCheck(c) ==
    [allowed |-> c.allowed, remainingAttempts |-> c.remainingAttempts,
     resetTime |-> c.resetTime, thrown |-> FALSE]

ResultOfGuard(g) ==
    [allowed |-> ~g.thrown, remainingAttempts |-> g.remainingAttempts,
     resetTime |-> g.resetTime, thrown |-> g.thrown]

SweepCheck(u) ==
    /\ CheckCall(u)
    /\ LET swept == MaybeCleanup(shadow.always, now, TRUE)
       IN shadow' =
              [never |-> shadow.never,
               always |-> swept,
               lastNever |-> ResultOfCheck(
                   checkPasswordChangeRateLimit(shadow.never, now, u)),
               lastAlways |-> ResultOfCheck(
                   checkPasswordChangeRateLimit(swept, now, u))]

SweepRecord(u) ==
    /\ RecordCall(u)
    /\ shadow' =
           [never |-> recordPasswordChangeAttempt(shadow.never, now, u),
            always |-> recordPasswordChangeAttempt(shadow.always, now, u),
            lastNever |-> NoResult, lastAlways |-> NoResult]

SweepGuard(u) ==
    /\ GuardCall(u)
    /\ LET never == requirePasswordChangeRateLimit(shadow.never, now, u, FALSE)
           always == requirePasswordChangeRateLimit(shadow.always, now, u, TRUE)
       IN shadow' = [never |-> never.store, always |-> always.store,
                     lastNever |-> ResultOfGuard(never),
                     lastAlways |-> ResultOfGuard(always)]

SweepReset(u) ==
    /\ ResetCall(u)
    /\ shadow' =
           [never |-> resetPasswordChangeRateLimit(shadow.never, u),
            always |-> resetPasswordChangeRateLimit(shadow.always, u),
            lastNever |-> NoResult, lastAlways |-> NoResult]

NextSweep ==
    \/ TickClock /\ UNCHANGED <<req, jobVars, auxVars>>
    \/ \E u \in Actors : SweepCheck(u) /\ UNCHANGED <<req, jobVars, parse, teamVars, quotaVars>>
    \/ \E u \in Actors : SweepRecord(u) /\ UNCHANGED <<req, jobVars, parse, teamVars, quotaVars>>
    \/ \E u \in Actors : SweepGuard(u) /\ UNCHANGED <<req, jobVars, parse, teamVars, quotaVars>>
    \/ \E u \in Actors : SweepReset(u) /\ UNCHANGED <<req, jobVars, parse, teamVars, quotaVars>>

SpecSweep == Init /\ [][NextSweep]_vars

(***************************************************************************)
(* The change-password action: one request is one run of the handler, and  *)
(* a step is the code between two awaits.                                  *)
(***************************************************************************)
Reqs == {"r1", "r2"}

\* reached: the steps of the handler the request has gone through
IdleReq == [pc |-> "idle", user |-> "none", status |-> 0, reached |-> {}]

Return(r, code, steps) ==
    req' = [req EXCEPT ![r].pc = "done", ![r].status = code,
                       ![r].reached = @ \cup steps]

\* requireMethod, requireAuthentication and getUser: a request that is not a
\* POST is answered 405, one without a user 401
ReqBegin(r) ==
    /\ req[r].pc = "idle"
    /\ \E outcome \in {"ok", "badMethod", "noUser"}, u \in Actors :
          CASE outcome = "badMethod" -> Return(r, 405, {})
            [] outcome = "noUser" -> Return(r, 401, {})
            [] OTHER -> req' = [req EXCEPT ![r].pc = "guard", ![r].user = u]
    /\ UNCHANGED <<rateLimitStore, now, last, recLog, jobVars, auxVars>>

\* requirePasswordChangeRateLimit(user.id): the thrown 429 ends the request
ReqGuard(r) ==
    /\ req[r].pc = "guard"
    /\ \E rnd \in BOOLEAN :
          LET g == requirePasswordChangeRateLimit(rateLimitStore, now,
                                                  req[r].user, rnd)
          IN /\ rateLimitStore' = g.store
             /\ IF g.thrown
                THEN Return(r, g.status, {})
                ELSE req' = [req EXCEPT ![r].pc = "form",
                                        ![r].reached = @ \cup {"guard"}]
    /\ UNCHANGED <<now, last, recLog, jobVars, auxVars>>

\* the form is read and validated; a user with a password must give the current one
ReqValidate(r) ==
    /\ req[r].pc = "form"
    /\ \E success \in BOOLEAN, hasExistingPassword \in BOOLEAN,
          currentPassword \in BOOLEAN :
          IF ~success
          THEN Return(r, 400, {"validate"})
          ELSE IF hasExistingPassword
          THEN IF ~currentPassword
               THEN Return(r, 400, {"validate"})
               ELSE req' = [req EXCEPT ![r].pc = "verify",
                                       ![r].reached = @ \cup {"validate"}]
          ELSE req' = [req EXCEPT ![r].pc = "update",
                                  ![r].reached = @ \cup {"validate"}]
    /\ UNCHANGED <<rateLimitStore, now, last, recLog, jobVars, auxVars>>

\* signInWithPassword with the current password
ReqVerify(r) ==
    /\ req[r].pc = "verify"
    /\ \E verifyError \in BOOLEAN :
          IF verifyError
          THEN Return(r, 400, {"verify"})
          ELSE req' = [req EXCEPT ![r].pc = "update",
                                  ![r].reached = @ \cup {"verify"}]
    /\ UNCHANGED <<rateLimitStore, now, last, recLog, jobVars, auxVars>>

\* faulty variant: the limit is reset whether or not the update succeeded
ReqUpdateResetsAlways(r) ==
    /\ req[r].pc = "update"
    /\ \E updateError \in BOOLEAN :
          /\ rateLimitStore' =
                 resetPasswordChangeRateLimit(rateLimitStore, req[r].user)
          /\ IF updateError
             THEN Return(r, 400, {"update", "reset"})
             ELSE Return(r, 200, {"update", "reset"})
    /\ UNCHANGED <<now, last, recLog, jobVars, auxVars>>

\* updateUser, and on success resetPasswordChangeRateLimit(user.id)
ReqUpdate(r) ==
    /\ req[r].pc = "update"
    /\ \E updateError \in BOOLEAN :
          IF updateError
          THEN /\ Return(r, 400, {"update"})
               /\ UNCHANGED rateLimitStore
          ELSE /\ rateLimitStore' =
                      resetPasswordChangeRateLimit(rateLimitStore, req[r].user)
               /\ Return(r, 200, {"update", "reset"})
    /\ UNCHANGED <<now, last, recLog, jobVars, auxVars>>

\* the response is sent; the slot takes the next request
ReqFinish(r) ==
    /\ req[r].pc = "done"
    /\ req' = [req EXCEPT ![r] = IdleReq]
    /\ UNCHANGED <<rateLimitStore, now, last, recLog, jobVars, auxVars>>

InitAction == InitLimiter /\ req = [r \in Reqs |-> IdleReq] /\ NoJob /\ NoAux

NextAction ==
    \/ Tick
    \/ \E r \in Reqs : ReqBegin(r)
    \/ \E r \in Reqs : ReqGuard(r)
    \/ \E r \in Reqs : ReqValidate(r)
    \/ \E r \in Reqs : ReqVerify(r)
    \/ \E r \in Reqs : ReqUpdate(r)
    \/ \E r \in Reqs : ReqFinish(r)

SpecAction == InitAction /\ [][NextAction]_vars

(***************************************************************************)
(* The guard with its check and its record as two steps: two calls of the  *)
(* guard in flight, each at its check or between its check and its record. *)
(***************************************************************************)
\* a call of the guard: its position and the locals allowed,
\* remainingAttempts and resetTime it took from check
IdleCall == [pc |-> "idle", user |-> "none", allowed |-> FALSE,
             remainingAttempts |-> 0, resetTime |-> 0]

\* requirePasswordChangeRateLimit(userId) is called and makes its check; a
\* call that is not allowed throws the 429 response and is over
RaceCheck(r) ==
    /\ req[r].pc = "idle"
    /\ \E u \in Actors, rnd \in BOOLEAN :
          LET swept == MaybeCleanup(rateLimitStore, now, rnd)
              c == checkPasswordChangeRateLimit(swept, now, u)
          IN /\ rateLimitStore' = swept
             /\ req' = IF c.allowed
                       THEN [req EXCEPT
                               ![r] = [pc |-> "record", user |-> u,
                                       allowed |-> c.allowed,
                                       remainingAttempts |-> c.remainingAttempts,
                                       resetTime |-> c.resetTime]]
                       ELSE req
    /\ UNCHANGED <<now, last, recLog, jobVars, auxVars>>

\* the call's record, after which it returns
RaceRecord(r) ==
    /\ req[r].pc = "record"
    /\ rateLimitStore' =
           recordPasswordChangeAttempt(rateLimitStore, now, req[r].user)
    /\ req' = [req EXCEPT ![r].pc = "returned"]
    /\ UNCHANGED <<now, last, recLog, jobVars, auxVars>>

\* the call is over; the slot takes the next call
RaceFinish(r) ==
    /\ req[r].pc = "returned"
    /\ req' = [req EXCEPT ![r] = IdleCall]
    /\ UNCHANGED <<limVars, jobVars, auxVars>>

InitRace == InitLimiter /\ req = [r \in Reqs |-> IdleCall] /\ NoJob /\ NoAux

NextRace ==
    \/ Tick
    \/ \E r \in Reqs : RaceCheck(r)
    \/ \E r \in Reqs : RaceRecord(r)
    \/ \E r \in Reqs : RaceFinish(r)

SpecRace == InitRace /\ [][NextRace]_vars

(***************************************************************************)
(* The background analysis job: a step is the code between two awaits, and *)
(* every awaited call either returns or throws.                            *)
(***************************************************************************)
WorkflowId == "wf1"

DbError == "db error"

Wrap(msg) == "AI analysis failed: " \o msg

Do(op, ok) == trail' = Append(trail, [op |-> op, ok |-> ok])

\* an error thrown inside the job's try block enters its catch block
Caught(msg) == job' = [job EXCEPT !.pc = "catchWorkflow", !.error = msg]

\* waitUntil schedules the task
Trigger ==
    /\ job.pc = "idle"
    /\ job' = [job EXCEPT !.pc = "setProcessing"]
    /\ UNCHANGED <<video, workflow, stepRows, trail>>

\* 1. update work_videos set status = processing, progress = 10
SetProcessing ==
    /\ job.pc = "setProcessing"
    /\ \E ok \in BOOLEAN :
          /\ Do("setProcessing", ok)
          /\ IF ok
             THEN /\ video' = IF video.exists
                              THEN [video EXCEPT !.status = "processing",
                                                 !.progress = 10]
                              ELSE video
                  /\ job' = [job EXCEPT !.pc = "findVideo"]
             ELSE /\ Caught(DbError)
                  /\ UNCHANGED video
    /\ UNCHANGED <<workflow, stepRows>>

\* 2. the video row is read; performAIAnalysis is entered with its storage path
FindVideo ==
    /\ job.pc = "findVideo"
    /\ \E ok \in BOOLEAN :
          /\ Do("findVideo", ok)
          /\ IF ~ok THEN Caught(DbError)
             ELSE IF ~video.exists THEN Caught("Video not found")
             ELSE IF video.storage_path = "" THEN Caught("no storage path")
             ELSE job' = [job EXCEPT !.pc = "download",
                                     !.path = video.storage_path]
    /\ UNCHANGED <<video, workflow, stepRows>>

\* downloadVideoFromSupabase
Download ==
    /\ job.pc = "download"
    /\ \E ok \in BOOLEAN :
          /\ Do("download", ok)
          /\ IF ok
             THEN job' = [job EXCEPT !.pc = "extract", !.tmpVideo = TRUE]
             ELSE Caught(Wrap("download failed"))
    /\ UNCHANGED <<video, workflow, stepRows>>

\* extractFrames, and the test for an empty list of frames
Extract ==
    /\ job.pc = "extract"
    /\ \E ok \in BOOLEAN, k \in 0..MaxFrames :
          /\ Do("extract", ok)
          /\ IF ~ok
             THEN job' = [job EXCEPT !.pc = "cleanupVideo",
                                     !.error = "extraction failed"]
             ELSE IF k = 0
             THEN job' = [job EXCEPT !.pc = "cleanupFrames", !.tmpFrames = TRUE,
                                     !.error = "no frames"]
             ELSE job' = [job EXCEPT !.pc = "geminiPrepare", !.tmpFrames = TRUE,
                                     !.frames = k]
    /\ UNCHANGED <<video, workflow, stepRows>>

\* the models of the preference list
NumModels == 3

\* what a call of a model can give: a response whose JSON holds a steps array
\* (ok), or an error: the service's 503, another status of the service, a
\* response extractJson cannot parse, a parsed value without a steps array.
\* The two last are plain Errors, with no status (0)
ModelAnswers ==
    {[kind |-> "ok", status |-> 0],
     [kind |-> "unavailable", status |-> 503],
     [kind |-> "otherStatus", status |-> 429],
     [kind |-> "unparsable", status |-> 0],
     [kind |-> "noSteps", status |-> 0]}

\* the steps of model m's response: each step tells the response it is from
StepsOf(m, n) == [i \in 1..n |-> [model |-> m, no |-> i]]

\* faulty variant: no error leads to the next model
AbortsOnAnyError(error) == TRUE

\* if (error.status && error.status !== 503) throw error
AbortsLoop(error) == error.status # 0 /\ error.status # 503

\* extract went to the model with at least one frame: makeClient and the
\* reading of the frames; the answers the models will give are fixed here
GeminiPrepare ==
    /\ job.pc = "geminiPrepare"
    /\ \E ok \in BOOLEAN, answers \in [1..NumModels -> ModelAnswers] :
          IF ok
          THEN job' = [job EXCEPT !.pc = "gemini", !.answers = answers]
          ELSE job' = [job EXCEPT !.pc = "cleanupFrames",
                                  !.error = "model client failed"]
    /\ UNCHANGED <<video, workflow, stepRows, trail>>

\* analyzeFramesWithGemini, one turn of the loop over the models: the call of
\* the next model, extractJson and the test of the steps array; an error
\* either leaves the loop or, after the wait, leads to the next model; past
\* the last model the last error is thrown
Gemini ==
    /\ job.pc = "gemini"
    /\ \E n \in 0..MaxSteps :
          LET m == job.tried + 1
              answer == job.answers[m]
          IN /\ Do("gemini", answer.kind = "ok")
             /\ IF answer.kind = "ok"
                THEN job' = [job EXCEPT !.pc = "upload", !.tried = m,
                                        !.steps = StepsOf(m, n)]
                ELSE IF AbortsLoop(answer) \/ m = NumModels
                THEN job' = [job EXCEPT !.pc = "cleanupFrames", !.tried = m,
                                        !.error = answer.kind]
                ELSE job' = [job EXCEPT !.tried = m]
    /\ UNCHANGED <<video, workflow, stepRows>>

\* the steps with the screenshots: the URLs that are not null, taken by index
MergeResults(steps, urls) ==
    LET validUrls == SelectSeq(urls, LAMBDA url : url # 0)
    IN [index \in 1..Len(steps) |->
           [action |-> steps[index],
            screenshot_url |-> IF index <= Len(validUrls)
                               THEN validUrls[index] ELSE 0]]

\* faulty variant: the first frame that fails ends the loop with its error
UploadStopsAtFailure ==
    /\ job.pc = "upload"
    /\ \E ok \in BOOLEAN :
          LET urls == Append(job.urls, IF ok THEN Len(job.urls) + 1 ELSE 0)
          IN /\ Do("upload", ok)
             /\ IF ~ok
                THEN job' = [job EXCEPT !.urls = urls, !.pc = "cleanupFrames",
                                        !.error = "upload failed"]
                ELSE IF Len(urls) < job.frames
                THEN job' = [job EXCEPT !.urls = urls]
                ELSE job' = [job EXCEPT !.urls = urls, !.pc = "cleanupFrames",
                                        !.results = MergeResults(job.steps, urls)]
    /\ UNCHANGED <<video, workflow, stepRows>>

\* uploadFramesToStorage, one frame per step: the URL of frame i is i, null is
\* 0; after the last frame the steps are merged with the URLs
Upload ==
    /\ job.pc = "upload"
    /\ \E ok \in BOOLEAN :
          LET urls == Append(job.urls, IF ok THEN Len(job.urls) + 1 ELSE 0)
          IN /\ Do("upload", ok)
             /\ IF Len(urls) < job.frames
                THEN job' = [job EXCEPT !.urls = urls]
                ELSE job' = [job EXCEPT !.urls = urls, !.pc = "cleanupFrames",
                                        !.results = MergeResults(job.steps, urls)]
    /\ UNCHANGED <<video, workflow, stepRows>>

\* faulty variant: an error of the frames' cleanup leaves performAIAnalysis
\* at once
CleanupFramesLeaves ==
    /\ job.pc = "cleanupFrames"
    /\ \E ok \in BOOLEAN :
          /\ Do("cleanupFrames", ok)
          /\ IF ok
             THEN job' = [job EXCEPT !.pc = "cleanupVideo", !.tmpFrames = FALSE]
             ELSE job' = [job EXCEPT !.pc = "catchWorkflow",
                                     !.error = Wrap("cleanup failed")]
    /\ UNCHANGED <<video, workflow, stepRows>>

\* finally: await cleanupFrames(); an error it throws takes the place of the
\* result or of the error on its way out, and the outer finally runs next
CleanupFrames ==
    /\ job.pc = "cleanupFrames"
    /\ \E ok \in BOOLEAN :
          /\ Do("cleanupFrames", ok)
          /\ IF ok
             THEN job' = [job EXCEPT !.pc = "cleanupVideo", !.tmpFrames = FALSE]
             ELSE job' = [job EXCEPT !.pc = "cleanupVideo",
                                     !.error = "cleanup failed"]
    /\ UNCHANGED <<video, workflow, stepRows>>

\* finally: cleanupVideo(); then the results are returned or the error is
\* wrapped and thrown again
CleanupVideo ==
    /\ job.pc = "cleanupVideo"
    /\ Do("cleanupVideo", TRUE)
    /\ IF job.error # "none"
       THEN job' = [job EXCEPT !.pc = "catchWorkflow", !.tmpVideo = FALSE,
                               !.error = Wrap(job.error)]
       ELSE job' = [job EXCEPT !.pc = "insert", !.tmpVideo = FALSE]
    /\ UNCHANGED <<video, workflow, stepRows>>

\* faulty variant: the sequence numbers are the indices of the array
StepRowsFromZero(results) ==
    [index \in 1..Len(results) |->
        [workflow_id |-> WorkflowId, sequence_no |-> index - 1,
         action |-> results[index].action,
         screenshot_url |-> results[index].screenshot_url]]

StepRowsOf(results) ==
    [index \in 1..Len(results) |->
        [workflow_id |-> WorkflowId, sequence_no |-> index,
         action |-> results[index].action,
         screenshot_url |-> results[index].screenshot_url]]

\* faulty variant: an error of the insert is not noticed
InsertStepsIgnoresError ==
    /\ job.pc = "insert"
    /\ \E ok \in BOOLEAN :
          /\ Do("insert", ok)
          /\ job' = [job EXCEPT !.pc = "updateWorkflow"]
          /\ stepRows' = IF ok THEN stepRows \o StepRowsOf(job.results)
                         ELSE stepRows
    /\ UNCHANGED <<video, workflow>>

\* 4. insert into work_analysis_steps
InsertSteps ==
    /\ job.pc = "insert"
    /\ \E ok \in BOOLEAN :
          /\ Do("insert", ok)
          /\ IF ok
             THEN /\ stepRows' = stepRows \o StepRowsOf(job.results)
                  /\ job' = [job EXCEPT !.pc = "updateWorkflow"]
             ELSE /\ Caught(DbError)
                  /\ UNCHANGED stepRows
    /\ UNCHANGED <<video, workflow>>

\* 5. update work_workflows set status = analyzed
UpdateWorkflow ==
    /\ job.pc = "updateWorkflow"
    /\ \E ok \in BOOLEAN :
          /\ Do("updateWorkflow", ok)
          /\ IF ok
             THEN /\ workflow' = [workflow EXCEPT !.status = "analyzed",
                                                  !.completed_at = TRUE]
                  /\ job' = [job EXCEPT !.pc = "updateVideo"]
             ELSE /\ Caught(DbError)
                  /\ UNCHANGED workflow
    /\ UNCHANGED <<video, stepRows>>

\* faulty variant: the last update sets the status and leaves the progress
UpdateVideoKeepsProgress ==
    /\ job.pc = "updateVideo"
    /\ \E ok \in BOOLEAN :
          /\ Do("updateVideo", ok)
          /\ IF ok
             THEN /\ video' = IF video.exists
                              THEN [video EXCEPT !.status = "completed",
                                                 !.completed_at = TRUE]
                              ELSE video
                  /\ job' = [job EXCEPT !.pc = "done"]
             ELSE /\ Caught(DbError)
                  /\ UNCHANGED video
    /\ UNCHANGED <<workflow, stepRows>>

\* update work_videos set status = completed, progress = 100
UpdateVideo ==
    /\ job.pc = "updateVideo"
    /\ \E ok \in BOOLEAN :
          /\ Do("updateVideo", ok)
          /\ IF ok
             THEN /\ video' = IF video.exists
                              THEN [video EXCEPT !.status = "completed",
                                                 !.progress = 100,
                                                 !.completed_at = TRUE]
                              ELSE video
                  /\ job' = [job EXCEPT !.pc = "done"]
             ELSE /\ Caught(DbError)
                  /\ UNCHANGED video
    /\ UNCHANGED <<workflow, stepRows>>

\* catch: update work_workflows set status = pending; an error thrown here
\* leaves the task
CatchWorkflow ==
    /\ job.pc = "catchWorkflow"
    /\ \E ok \in BOOLEAN :
          /\ Do("catchWorkflow", ok)
          /\ IF ok
             THEN /\ workflow' = [workflow EXCEPT !.status = "pending"]
                  /\ job' = [job EXCEPT !.pc = "catchVideo"]
             ELSE /\ job' = [job EXCEPT !.pc = "rejected"]
                  /\ UNCHANGED workflow
    /\ UNCHANGED <<video, stepRows>>

\* catch: update work_videos set status = error, error_message
CatchVideo ==
    /\ job.pc = "catchVideo"
    /\ \E ok \in BOOLEAN :
          /\ Do("catchVideo", ok)
          /\ IF ok
             THEN /\ video' = IF video.exists
                              THEN [video EXCEPT !.status = "error",
                                                 !.error_message = job.error]
                              ELSE video
                  /\ job' = [job EXCEPT !.pc = "done"]
             ELSE /\ job' = [job EXCEPT !.pc = "rejected"]
                  /\ UNCHANGED video
    /\ UNCHANGED <<workflow, stepRows>>

\* the job is triggered for an uploaded video with a pending workflow; the
\* video row may be missing and its storage path may be empty
InitJob ==
    /\ InitLimiter
    /\ req = << >>
    /\ video \in {NoVideo, UploadedVideo(""), UploadedVideo("videos/v1.mp4")}
    /\ workflow = PendingWorkflow
    /\ stepRows = << >>
    /\ job = IdleJob
    /\ trail = << >>
    /\ NoAux

NextJob ==
    \/ Trigger /\ UNCHANGED <<limVars, req, auxVars>>
    \/ SetProcessing /\ UNCHANGED <<limVars, req, auxVars>>
    \/ FindVideo /\ UNCHANGED <<limVars, req, auxVars>>
    \/ Download /\ UNCHANGED <<limVars, req, auxVars>>
    \/ Extract /\ UNCHANGED <<limVars, req, auxVars>>
    \/ GeminiPrepare /\ UNCHANGED <<limVars, req, auxVars>>
    \/ Gemini /\ UNCHANGED <<limVars, req, auxVars>>
    \/ Upload /\ UNCHANGED <<limVars, req, auxVars>>
    \/ CleanupFrames /\ UNCHANGED <<limVars, req, auxVars>>
    \/ CleanupVideo /\ UNCHANGED <<limVars, req, auxVars>>
    \/ InsertSteps /\ UNCHANGED <<limVars, req, auxVars>>
    \/ UpdateWorkflow /\ UNCHANGED <<limVars, req, auxVars>>
    \/ UpdateVideo /\ UNCHANGED <<limVars, req, auxVars>>
    \/ CatchWorkflow /\ UNCHANGED <<limVars, req, auxVars>>
    \/ CatchVideo /\ UNCHANGED <<limVars, req, auxVars>>

SpecJob == InitJob /\ [][NextJob]_vars

(***************************************************************************)
(* extractJson.  A text is a sequence of tokens: "{" "}" "[" "]" ":" ","   *)
(* are themselves, "q" is a double quote, "F" is a run of three backticks, *)
(* "j" is the word json, "a" is a run of letters and "w" is white space.   *)
(***************************************************************************)
\* a string of an object holds at most MaxStr tokens
MaxStr == 2
\* the prose before and after an object holds at most MaxProse tokens each
MaxProse == 1

RECURSIVE StripFrom(_, _, _)
\* the text from token i on without the white space outside strings
StripFrom(text, i, inString) ==
    IF i > Len(text) THEN << >>
    ELSE IF text[i] = "q"
         THEN <<"q">> \o StripFrom(text, i + 1, ~inString)
         ELSE IF text[i] = "w" /\ ~inString
              THEN StripFrom(text, i + 1, inString)
              ELSE <<text[i]>> \o StripFrom(text, i + 1, inString)

\* the token after the string that opens at i, or 0 when it does not close
EndOfString(s, i) ==
    LET closing == {k \in (i + 1)..Len(s) : s[k] = "q"}
    IN IF closing = {} THEN 0
       ELSE 1 + CHOOSE k \in closing : \A l \in closing : k <= l

RECURSIVE EndOfValue(_, _), EndOfMembers(_, _), EndOfElements(_, _)
\* the token after the JSON value that starts at i, or 0 when there is none
EndOfValue(s, i) ==
    IF i > Len(s) THEN 0
    ELSE IF s[i] = "q" THEN EndOfString(s, i)
    ELSE IF s[i] = "{"
         THEN IF i + 1 <= Len(s) /\ s[i + 1] = "}" THEN i + 2
              ELSE EndOfMembers(s, i + 1)
    ELSE IF s[i] = "["
         THEN IF i + 1 <= Len(s) /\ s[i + 1] = "]" THEN i + 2
              ELSE EndOfElements(s, i + 1)
    ELSE 0

\* the members of an object from i on: string, colon, value, then a comma
\* and more members, or the closing brace
EndOfMembers(s, i) ==
    LET k == IF i <= Len(s) /\ s[i] = "q" THEN EndOfString(s, i) ELSE 0
    IN IF k = 0 \/ k > Len(s) \/ s[k] # ":" THEN 0
       ELSE LET v == EndOfValue(s, k + 1)
            IN IF v = 0 \/ v > Len(s) THEN 0
               ELSE IF s[v] = "}" THEN v + 1
               ELSE IF s[v] = "," THEN EndOfMembers(s, v + 1)
               ELSE 0

\* the elements of an array from i on
EndOfElements(s, i) ==
    LET v == EndOfValue(s, i)
    IN IF v = 0 \/ v > Len(s) THEN 0
       ELSE IF s[v] = "]" THEN v + 1
       ELSE IF s[v] = "," THEN EndOfElements(s, v + 1)
       ELSE 0

ParseError == [ok |-> FALSE, value |-> << >>]

\* JSON.parse: the value of a text that is one JSON value, told by its tokens
\* without the white space between them; anything else throws
JsonParse(text) ==
    LET s == StripFrom(text, 1, FALSE)
    IN IF EndOfValue(s, 1) = Len(s) + 1
       THEN [ok |-> TRUE, value |-> s]
       ELSE ParseError

\* text.match(/```json[\s\S]*?```/i): the first fence opener that has a
\* closing fence after it, and the first such closing fence
CodeBlockStarts(text) ==
    {i \in 1..(Len(text) - 1) :
        /\ text[i] = "F" /\ text[i + 1] = "j"
        /\ \E k \in (i + 2)..Len(text) : text[k] = "F"}

\* a parse error is thrown as 'Failed to parse JSON from Gemini response'
extractJson(text) ==
    LET starts == CodeBlockStarts(text)
        firstBrace == {i \in 1..Len(text) : text[i] = "{"}
        lastBrace == {i \in 1..Len(text) : text[i] = "}"}
    IN IF starts # {}
       THEN LET i == CHOOSE x \in starts : \A y \in starts : x <= y
                ends == {k \in (i + 2)..Len(text) : text[k] = "F"}
                k == CHOOSE x \in ends : \A y \in ends : x <= y
            IN JsonParse(SubSeq(text, i + 2, k - 1))
       ELSE IF firstBrace # {} /\ lastBrace # {}
       THEN LET i == CHOOSE x \in firstBrace : \A y \in firstBrace : x <= y
                k == CHOOSE x \in lastBrace : \A y \in lastBrace : y <= x
            IN JsonParse(SubSeq(text, i, k))
       ELSE JsonParse(text)

\* the sequences of at most n tokens of a set
SeqsUpTo(tokens, n) == UNION {[1..k -> tokens] : k \in 0..n}

\* the object {"steps": [{"a": "..."}]} whose one string holds the tokens body
ObjectOf(body) ==
    <<"{", "q", "a", "q", ":", "[", "{", "q", "a", "q", ":", "q">> \o body
        \o <<"q", "}", "]", "}">>

\* the strings of a step: letters, braces, backticks and white space
StringBodies == SeqsUpTo({"a", "{", "}", "F", "j", "w"}, MaxStr)

\* the prose around an object
ProseTexts == SeqsUpTo({"a", "w", "{", "}"}, MaxProse)

Forms == {"fenced", "bare", "prose"}

\* the response text that gives the object in the form
TextOf(form, object, before, after) ==
    CASE form = "fenced" -> <<"F", "j", "w">> \o object \o <<"w", "F">>
      [] form = "bare" -> object
      [] OTHER -> before \o object \o after

\* a response is given: an object with a steps array and the prose to put
\* around it
InitJson ==
    /\ InitLimiter /\ req = << >> /\ NoJob /\ shadow = NoShadow
    /\ NoTeam /\ NoQuota
    /\ \E body \in StringBodies, before \in ProseTexts, after \in ProseTexts :
          parse = [pc |-> "given", object |-> ObjectOf(body),
                   before |-> before, after |-> after, result |-> << >>]

\* extractJson is applied to the three forms of the object
ExtractJson ==
    /\ parse.pc = "given"
    /\ parse' = [parse EXCEPT
                    !.pc = "extracted",
                    !.result = [form \in Forms |->
                                   extractJson(TextOf(form, parse.object,
                                                      parse.before, parse.after))]]
    /\ UNCHANGED <<limVars, req, jobVars, shadow, teamVars, quotaVars>>

NextJson == ExtractJson

SpecJson == InitJson /\ [][NextJson]_vars

(***************************************************************************)
(* POST /api/teams/:teamId/members, the invitation of a team member.       *)
(***************************************************************************)
MaxDayTicks == 2

MaxInvites == 3

\* expiresAt.setDate(expiresAt.getDate() + 7)
InviteDays == 7

\* the clock of the invitations advances by more than half the life of a
\* token: a token is met before, at and after its expiry
DayStep == InviteDays \div 2 + 1

Callers == {"u1", "u2", "u3"}

\* the work_teams rows
workTeams == [t \in Teams |-> [owner_id |-> IF t = "t1" THEN "u1" ELSE "u2"]]

\* the account that signs up with an email
UserOf(email) == IF email = "a" THEN "u3" ELSE "u2"

\* the member rows before any invitation of the run: in the first team the
\* one email is an active admin and the other is none or a deactivated admin,
\* the second team has no member row
InitRows(teamId, email) ==
    IF teamId # "t1" THEN {NoRow}
    ELSE IF email = "a"
    THEN {[status |-> "active", role |-> "admin", user_id |-> UserOf(email)]}
    ELSE {NoRow,
          [status |-> "inactive", role |-> "admin", user_id |-> UserOf(email)]}

checkAdminPermission(teamId, userId) ==
    IF teamId \notin Teams THEN FALSE
    ELSE IF workTeams[teamId].owner_id = userId THEN TRUE
    ELSE \E e \in Emails :
            /\ workTeamMembers[<<teamId, e>>].user_id = userId
            /\ workTeamMembers[<<teamId, e>>].status = "active"
            /\ workTeamMembers[<<teamId, e>>].role \in {"admin", "owner"}

\* faulty variant: the earlier tokens are left as they are
ExpireNothing(invites, teamId, email, t) == invites

\* update work_team_invites set expires_at = now where team_id and email match;
\* of a token, the columns that tell it from the others and its expiry
ExpireInvites(invites, teamId, email, t) ==
    [i \in 1..Len(invites) |->
        IF invites[i].team_id = teamId /\ invites[i].email = email
        THEN [invites[i] EXCEPT !.expires_at = t]
        ELSE invites[i]]

\* the member row after the invitation: an existing row is updated, a missing
\* one is inserted with no user
InvitedRow(existing, role) ==
    IF existing.status # "none"
    THEN [existing EXCEPT !.role = role, !.status = "pending"]
    ELSE [status |-> "pending", role |-> role, user_id |-> "none"]

\* a response, with the team and the email of the request when it is answered
\* 201 or 409
Reply(status, teamId, email, token) ==
    [status |-> status, teamId |-> teamId, email |-> email, token |-> token]

Rejected(status) ==
    /\ inviteLast' = Reply(status, "", "", 0)
    /\ UNCHANGED <<workTeamMembers, workTeamInvites>>

\* the action from the lookup of the member row on; fail names the database
\* statement that throws, if one does
InviteMember(user, teamId, email, role, fail) ==
    LET existing == workTeamMembers[<<teamId, email>>]
        token == Len(workTeamInvites) + 1
        expired == ExpireInvites(workTeamInvites, teamId, email, today)
        invite == [team_id |-> teamId, email |-> email, token |-> token,
                   expires_at |-> today + InviteDays]
    IN IF fail = "select"
       THEN /\ inviteLast' = Reply(500, "", "", 0)
            /\ UNCHANGED <<workTeamMembers, workTeamInvites>>
       ELSE IF existing.status = "active"
       THEN /\ inviteLast' = Reply(409, teamId, email, 0)
            /\ UNCHANGED <<workTeamMembers, workTeamInvites>>
       ELSE IF fail = "member"
       THEN /\ inviteLast' = Reply(500, "", "", 0)
            /\ UNCHANGED <<workTeamMembers, workTeamInvites>>
       ELSE /\ workTeamMembers' =
                  [workTeamMembers EXCEPT
                      ![<<teamId, email>>] =
                          InvitedRow(existing, role)]
            /\ IF fail = "expire"
               THEN /\ inviteLast' = Reply(500, "", "", 0)
                    /\ UNCHANGED workTeamInvites
               ELSE IF fail = "insert"
               THEN /\ inviteLast' = Reply(500, "", "", 0)
                    /\ workTeamInvites' = expired
               ELSE /\ inviteLast' = Reply(201, teamId, email, token)
                    /\ workTeamInvites' = Append(expired, invite)

\* the action; the parts of the request are read as the code reads them
Invite ==
    /\ Len(workTeamInvites) < MaxInvites
    /\ \E method \in {"POST", "GET"} :
          IF method # "POST" THEN Rejected(405)
          ELSE \E user \in Callers \cup {"none"} :
                  IF user = "none" THEN Rejected(401)
                  ELSE \E teamId \in Teams \cup {"", "t0"} :
                          IF teamId = "" THEN Rejected(400)
                          ELSE IF ~checkAdminPermission(teamId, user)
                          THEN Rejected(403)
                          ELSE \E email \in Emails \cup {""} :
                                  IF email = "" THEN Rejected(400)
                                  ELSE \E fail \in {"none", "select", "member",
                                                    "expire", "insert"} :
                                          \* the body names no role
                                          InviteMember(user, teamId, email,
                                                       "member", fail)
    /\ UNCHANGED today

TickDay ==
    /\ today < MaxDayTicks * DayStep
    /\ today' = today + DayStep
    /\ UNCHANGED <<workTeamMembers, workTeamInvites, inviteLast>>

InitInvite ==
    /\ InitLimiter /\ req = << >> /\ NoJob
    /\ shadow = NoShadow /\ parse = NoParse /\ NoQuota
    /\ workTeamMembers \in
          [Teams \X Emails -> UNION {InitRows(t, e) : t \in Teams, e \in Emails}]
    /\ \A t \in Teams, e \in Emails : workTeamMembers[<<t, e>>] \in InitRows(t, e)
    /\ workTeamInvites = << >>
    /\ today = 0
    /\ inviteLast = NoReply

NextInvite ==
    \/ TickDay /\ UNCHANGED <<limVars, req, jobVars, shadow, parse, quotaVars>>
    \/ Invite /\ UNCHANGED <<limVars, req, jobVars, shadow, parse, quotaVars>>

SpecInvite == InitInvite /\ [][NextInvite]_vars

(***************************************************************************)
(* The quota checks and the upload-url action.                             *)
(***************************************************************************)
MaxVideos == 2

MaxWorkflows == 8

MAX_STORAGE_BYTES == 100 * 1024 * 1024

MAX_FILE_SIZE == 50 * 1024 * 1024

MAX_WORKFLOW_COUNT == 7

\* x > limit, false for NaN
Gt(x, limit) == ~x.nan /\ x.value > limit

\* current + x
Plus(current, x) == IF x.nan THEN NaN ELSE Num(current + x.value)

\* select sum(file_size) from work_videos where owner_id = userId, no row
\* giving null and so 0
RECURSIVE SumFrom(_, _)
SumFrom(userId, i) ==
    IF i > Len(workVideos) THEN 0
    ELSE (IF workVideos[i].owner_id = userId THEN workVideos[i].file_size ELSE 0)
         + SumFrom(userId, i + 1)

currentUsage(userId) == SumFrom(userId, 1)

\* faulty variant: a file or a total at the limit is refused
checkStorageQuotaAtLimit(userId, newSizeBytes, queryOk) ==
    IF ~newSizeBytes.nan /\ newSizeBytes.value >= MAX_FILE_SIZE THEN "fileSize"
    ELSE IF ~queryOk THEN "query"
    ELSE IF ~newSizeBytes.nan
            /\ currentUsage(userId) + newSizeBytes.value >= MAX_STORAGE_BYTES
    THEN "storage"
    ELSE "none"

\* what checkStorageQuota throws: "none" when it returns; queryOk tells whether
\* the query of the total answers
checkStorageQuota(userId, newSizeBytes, queryOk) ==
    IF Gt(newSizeBytes, MAX_FILE_SIZE) THEN "fileSize"
    ELSE IF ~queryOk THEN "query"
    ELSE IF Gt(Plus(currentUsage(userId), newSizeBytes), MAX_STORAGE_BYTES)
    THEN "storage"
    ELSE "none"

\* what checkWorkflowQuota throws
checkWorkflowQuota(userId, queryOk) ==
    IF ~queryOk THEN "query"
    ELSE IF workWorkflows[userId] >= MAX_WORKFLOW_COUNT THEN "workflowCount"
    ELSE "none"

\* the fileSize field of the form: missing, not a number, or the decimal text
\* of a number
FileSizeFields ==
    {[text |-> "", value |-> 0], [text |-> "abc", value |-> 0]}
    \cup {[text |-> "digits", value |-> v] :
             v \in {0, 1, 2, MAX_FILE_SIZE, MAX_FILE_SIZE + 1}}

\* Number(fileSize)
Number(field) ==
    IF field.text = "abc" THEN NaN ELSE Num(field.value)

Outcome(op, userId, size, queryOk, thrown, status, url) ==
    [op |-> op, userId |-> userId, size |-> size, queryOk |-> queryOk,
     thrown |-> thrown, status |-> status, url |-> url]

\* the action of upload-url from the quota check on; signOk tells whether the
\* storage service signs the path
IssueUrl(user, size, queryOk, signOk) ==
    LET thrown == checkStorageQuota(user, size, queryOk)
    IN IF thrown # "none"
       THEN /\ quotaLast' = Outcome("uploadUrl", user, size, queryOk, thrown,
                                    500, FALSE)
            /\ UNCHANGED signedUrls
       ELSE IF ~signOk
       THEN /\ quotaLast' = Outcome("uploadUrl", user, size, queryOk, "none",
                                    500, FALSE)
            /\ UNCHANGED signedUrls
       ELSE /\ quotaLast' = Outcome("uploadUrl", user, size, queryOk, "none",
                                    200, TRUE)
            /\ signedUrls' = signedUrls \cup {user}

Refused(user, thrown, status) ==
    /\ quotaLast' = Outcome("uploadUrl", user, Num(0), TRUE, thrown, status, FALSE)
    /\ UNCHANGED signedUrls

\* the action of upload-url; formOk tells whether the form is read
UploadUrl ==
    /\ \E user \in Owners \cup {"none"} :
          IF user = "none" THEN Refused(user, "none", 401)
          ELSE \E formOk \in BOOLEAN :
                  IF ~formOk THEN Refused(user, "form", 500)
                  ELSE \E filename \in {"", "v.mp4"}, fileType \in {"", "video/mp4"},
                          fileSize \in FileSizeFields :
                          IF filename = "" \/ fileType = "" \/ fileSize.text = ""
                          THEN Refused(user, "none", 400)
                          ELSE \E queryOk, signOk \in BOOLEAN :
                                  IssueUrl(user, Number(fileSize), queryOk, signOk)
    /\ UNCHANGED <<workVideos, workWorkflows>>

\* a call of checkWorkflowQuota
CheckWorkflowQuota(userId, queryOk) ==
    /\ quotaLast' = Outcome("checkWorkflowQuota", userId, Num(0), queryOk,
                            checkWorkflowQuota(userId, queryOk), 0, FALSE)
    /\ UNCHANGED <<workVideos, workWorkflows, signedUrls>>

\* the rows stored before the run
VideoRows ==
    {[owner_id |-> u, file_size |-> n] :
        u \in Owners, n \in {MAX_FILE_SIZE - 1, MAX_FILE_SIZE}}

InitQuota ==
    /\ InitLimiter /\ req = << >> /\ NoJob
    /\ shadow = NoShadow /\ parse = NoParse /\ NoTeam
    /\ workVideos \in UNION {[1..n -> VideoRows] : n \in 0..MaxVideos}
    /\ workWorkflows \in [Owners -> 0..MaxWorkflows]
    \* the two checks read one table each: one of the two is empty
    /\ workVideos = << >> \/ workWorkflows = [u \in Owners |-> 0]
    /\ signedUrls = {}
    /\ quotaLast = NoCheck

NextQuota ==
    \/ UploadUrl /\ UNCHANGED <<limVars, req, jobVars, shadow, parse, teamVars>>
    \/ \E userId \in Owners, queryOk \in BOOLEAN :
          /\ CheckWorkflowQuota(userId, queryOk)
          /\ UNCHANGED <<limVars, req, jobVars, shadow, parse, teamVars>>

SpecQuota == InitQuota /\ [][NextQuota]_vars

(***************************************************************************)
(* Claims about the limiter's functions.                                   *)
(***************************************************************************)
\* the entries of a log, from index i on, that fall in the window opened by entry i
InWindow(log, i) == {j \in i..Len(log) : log[j] - log[i] <= WINDOW_MS}

\* the indices of the log entries that open a window: the first one, and each
\* first one past the window before it
RECURSIVE WindowStartsFrom(_, _)
WindowStartsFrom(log, i) ==
    IF i > Len(log) THEN {}
    ELSE {i} \cup WindowStartsFrom(log, i + Cardinality(InWindow(log, i)))

\* the window of the actor's latest record call holds exactly N record calls
\* (none of them undone by a reset) and is still open
NRecordsInWindow(u) ==
    \E i \in WindowStartsFrom(recLog[u], 1) :
        /\ Len(recLog[u]) - i + 1 = MAX_ATTEMPTS
        /\ Cardinality(InWindow(recLog[u], i)) = MAX_ATTEMPTS
        /\ now - recLog[u][i] <= WINDOW_MS

\* C1: after exactly N record calls for an actor within one window and with no
\* reset in between, check returns allowed = false and remaining = 0, and the
\* next guard call for the actor throws the 429 response.
C1_BlockedAfterNRecords ==
    \A u \in Actors : NRecordsInWindow(u) =>
        \A rnd \in BOOLEAN :
            LET c == checkPasswordChangeRateLimit(
                         MaybeCleanup(rateLimitStore, now, rnd), now, u)
                g == requirePasswordChangeRateLimit(rateLimitStore, now, u, rnd)
            IN /\ c.allowed = FALSE
               /\ c.remainingAttempts = 0
               /\ g.thrown
               /\ g.status = 429

\* a guard call was rejected as the (N+1)th attempt of its window
C1_Witness ==
    \E u \in Actors :
        /\ NRecordsInWindow(u)
        /\ last.op = "guard" /\ last.userId = u
        /\ last.thrown /\ last.remainingAttempts = 0

\* C3: whatever was called before, a reset of an actor followed immediately by a
\* check of that actor returns allowed = true and remaining = N.
C3_CheckAfterReset ==
    (last.op = "check" /\ last.follows # "other") =>
        (last.allowed /\ last.remainingAttempts = MAX_ATTEMPTS)

\* a check right after the reset of an actor that was blocked
C3_Witness ==
    /\ last.op = "check" /\ last.follows = "resetOfBlocked"
    /\ last.allowed /\ last.remainingAttempts = MAX_ATTEMPTS

\* C4: once the clock is past firstAttempt + W, check returns allowed = true and
\* remaining = N for the entry's actor, whatever the entry's count, with no
\* reset and whether or not the sweep removed the entry.
C4_ExpiredEntryAllows ==
    \A u \in DOMAIN rateLimitStore :
        now > rateLimitStore[u].firstAttempt + WINDOW_MS =>
            \A rnd \in BOOLEAN :
                LET c == checkPasswordChangeRateLimit(
                             MaybeCleanup(rateLimitStore, now, rnd), now, u)
                IN c.allowed /\ c.remainingAttempts = MAX_ATTEMPTS

\* a check let through an actor whose blocking entry, past its window, is
\* still in the store
C4_Witness ==
    \E u \in DOMAIN rateLimitStore :
        /\ rateLimitStore[u].count >= MAX_ATTEMPTS
        /\ now > rateLimitStore[u].firstAttempt + WINDOW_MS
        /\ last.op = "check" /\ last.userId = u
        /\ last.allowed /\ last.remainingAttempts = MAX_ATTEMPTS
        /\ last.resetTime = now + WINDOW_MS

\* a step that is a guard call of actor u
IsGuardStep(u) ==
    /\ now' = now
    /\ <<rateLimitStore, last, recLog>>' # <<rateLimitStore, last, recLog>>
    /\ last'.op = "guard" /\ last'.userId = u

\* C5: guard throws exactly when check returns allowed = false; when check
\* returns allowed = true, guard records one attempt and returns normally.
C5_GuardFollowsCheck ==
    [][\A u \in Actors : IsGuardStep(u) =>
          LET c == checkPasswordChangeRateLimit(rateLimitStore, now, u)
          IN /\ last'.thrown <=> ~c.allowed
             /\ c.allowed =>
                  /\ recLog' = [recLog EXCEPT ![u] = Append(@, now)]
                  /\ \E rnd \in BOOLEAN :
                        rateLimitStore' = recordPasswordChangeAttempt(
                            MaybeCleanup(rateLimitStore, now, rnd), now, u)
             /\ ~c.allowed =>
                  /\ recLog' = recLog
                  /\ u \in DOMAIN rateLimitStore'
                  /\ rateLimitStore'[u] = rateLimitStore[u]]_vars

\* a guard call returned normally after recording the last attempt of a window
C5_Witness ==
    \E u \in DOMAIN rateLimitStore :
        /\ last.op = "guard" /\ last.userId = u
        /\ ~last.thrown /\ last.remainingAttempts = 0
        /\ rateLimitStore[u].count = MAX_ATTEMPTS

(***************************************************************************)
(* Claims about sequences of guard and reset calls (SpecGuard).            *)
(***************************************************************************)
\* C2: with each guard call atomic, over any sequence of guard and reset calls
\* at most N guard calls of an actor return normally within one window that
\* holds no reset, and the count of every stored entry is between 1 and N.
C2_AtMostNAdmitted ==
    /\ \A u \in Actors : \A i \in WindowStartsFrom(recLog[u], 1) :
           Cardinality(InWindow(recLog[u], i)) <= MAX_ATTEMPTS
    /\ \A u \in DOMAIN rateLimitStore :
           /\ rateLimitStore[u].count \in 1..MAX_ATTEMPTS
           /\ Cardinality({i \in 1..Len(recLog[u]) :
                  recLog[u][i] >= rateLimitStore[u].firstAttempt}) <= MAX_ATTEMPTS

\* an actor used up a window and was let in again in the next window
C2_Witness ==
    \E u \in DOMAIN rateLimitStore :
        /\ Len(recLog[u]) = MAX_ATTEMPTS + 1
        /\ Cardinality(InWindow(recLog[u], 1)) = MAX_ATTEMPTS
        /\ rateLimitStore[u].count = 1
        /\ last.op = "guard" /\ last.userId = u /\ ~last.thrown

(***************************************************************************)
(* Claims about the change-password action (SpecAction).                   *)
(***************************************************************************)
\* request r takes a step that returns its response
Returns(r, code) ==
    req[r].pc # "done" /\ req'[r].pc = "done" /\ req'[r].status = code

C6_Order ==
    \A r \in Reqs :
        \* the guarded steps come after an admitted guard
        /\ req[r].reached # {} => "guard" \in req[r].reached
        /\ req[r].pc \in {"form", "verify", "update"} => "guard" \in req[r].reached
        \* a request answered 429 reached none of them
        /\ req[r].status = 429 => req[r].reached = {}
        \* reset is called on the successful path alone
        /\ "reset" \in req[r].reached <=> req[r].status = 200
        /\ req[r].status = 200 => {"guard", "validate", "update"} \subseteq req[r].reached

C6_Effects ==
    \* a failing path leaves the store, and so its recorded attempt, as it is
    /\ \A r \in Reqs : Returns(r, 400) =>
           /\ rateLimitStore' = rateLimitStore
           /\ "guard" \in req[r].reached
    \* a rejected request leaves the blocking entry as it is
    /\ \A r \in Reqs : Returns(r, 429) =>
           /\ req[r].user \in DOMAIN rateLimitStore'
           /\ rateLimitStore'[req[r].user] = rateLimitStore[req[r].user]
    \* a success deletes the actor's entry and no other
    /\ \A r \in Reqs : Returns(r, 200) =>
           /\ req[r].user \notin DOMAIN rateLimitStore'
           /\ \A u \in DOMAIN rateLimitStore \ {req[r].user} :
                  u \in DOMAIN rateLimitStore' /\ rateLimitStore'[u] = rateLimitStore[u]
    \* the store changes in the guard and in the successful update alone
    /\ rateLimitStore' # rateLimitStore =>
           \E r \in Reqs : req[r].pc = "guard" \/ Returns(r, 200)
    \* an entry within its window leaves the store by a success alone
    /\ \A u \in DOMAIN rateLimitStore :
           (u \notin DOMAIN rateLimitStore' /\ ~IsExpired(rateLimitStore[u], now)) =>
               \E r \in Reqs : Returns(r, 200) /\ req[r].user = u

\* C6: in the change-password action the guard comes before validation,
\* verification and update, a request answered 429 reaches none of them, reset
\* is called on the successful path alone, every failing path leaves its
\* recorded attempt in the store, and a success deletes the actor's entry.
C6_GuardBeforeResetOnSuccess == []C6_Order /\ [][C6_Effects]_vars

\* one request of an actor failed in the update and left its attempt, with
\* which the actor's next request was answered 429
C6_Witness ==
    \E r1, r2 \in Reqs :
        /\ req[r1].pc = "done" /\ req[r1].status = 429
        /\ req[r2].pc = "done" /\ req[r2].status = 400
        /\ "update" \in req[r2].reached
        /\ req[r1].user = req[r2].user
        /\ req[r1].user \in DOMAIN rateLimitStore
        /\ rateLimitStore[req[r1].user].count = MAX_ATTEMPTS

(***************************************************************************)
(* Claims about the analysis job (SpecJob).                                *)
(***************************************************************************)
\* the task has run to its end (done) or an error has left it (rejected)
JobEnded == job.pc \in {"done", "rejected"}

Did(op) == \E i \in 1..Len(trail) : trail[i].op = op /\ trail[i].ok

Failed(op) == \E i \in 1..Len(trail) : trail[i].op = op /\ ~trail[i].ok

DbOps == {"setProcessing", "findVideo", "insert", "updateWorkflow",
          "updateVideo", "catchWorkflow", "catchVideo"}

\* C7: at the end of a job (the task has returned, the video row exists) the
\* video/workflow pair is (completed, analyzed) or (error, pending), and the
\* two statuses move together: in no reachable state
\* is the workflow analyzed while the video is not completed, or the video
\* completed while the workflow is pending.
C7_StatusesTogether ==
    /\ (job.pc = "done" /\ video.exists) =>
           \/ video.status = "completed" /\ workflow.status = "analyzed"
           \/ video.status = "error" /\ workflow.status = "pending"
    /\ ~(workflow.status = "analyzed" /\ video.status # "completed")
    /\ ~(video.status = "completed" /\ workflow.status = "pending")

\* C8: a job that ends with the video in status error and the workflow pending
\* has inserted no AnalysisStep row, wherever the job failed.
C8_NoPartialSteps ==
    (JobEnded /\ video.status = "error" /\ workflow.status = "pending") =>
        Len(stepRows) = 0

\* download, frame extraction (with at least one frame) and model analysis
\* succeeded with their temporary files released, and no database call of
\* the job failed
AllSucceeded ==
    /\ Did("download") /\ Did("extract") /\ job.frames > 0 /\ Did("gemini")
    /\ ~Failed("cleanupFrames")
    /\ \A i \in 1..Len(trail) : trail[i].op \in DbOps => trail[i].ok

StageFailed == job.error \notin {"none", DbError}

\* C10: when a pipeline stage fails, the job ends with the video in status
\* error with a non-empty error_message and the workflow pending, and the
\* pipeline is not run again.
C10_FailureEndsInError ==
    (JobEnded /\ StageFailed) =>
        /\ video.status = "error" /\ video.error_message # ""
        /\ workflow.status = "pending"
        /\ Cardinality({i \in 1..Len(trail) : trail[i].op = "findVideo"}) = 1

(***************************************************************************)
(* Claims about the stages of the pipeline (SpecJob).                      *)
(***************************************************************************)
Called(op) == \E i \in 1..Len(trail) : trail[i].op = op

\* the frame extraction returned, with an empty list of frames
ZeroFrames == Did("extract") /\ job.frames = 0

\* C11: if frame extraction returns zero frames, the job ends with the video
\* in status error, the vision model is never called, no screenshot is
\* uploaded, and no AnalysisStep row is inserted.
C11_ZeroFramesEndsInError ==
    ZeroFrames =>
        /\ job.pc \notin {"geminiPrepare", "gemini", "upload", "insert"}
        /\ ~Called("gemini") /\ ~Called("upload") /\ ~Called("insert")
        /\ Len(stepRows) = 0
        /\ JobEnded => video.status = "error"

\* the first and the second model answer 503 and the third answers with steps
FallbackToThird ==
    /\ Len(job.answers) = NumModels
    /\ job.answers[1].kind = "unavailable"
    /\ job.answers[2].kind = "unavailable"
    /\ job.answers[3].kind = "ok"

\* nothing after the model analysis failed: the release of the frames and the
\* database calls of the job
RestSucceeded ==
    /\ ~Failed("cleanupFrames")
    /\ \A i \in 1..Len(trail) : trail[i].op \in DbOps => trail[i].ok

\* C12: if the model call fails with 503 on the first and on the second model
\* of the list and succeeds on the third, the analysis returns the steps of the
\* third model's response, and the job, with nothing failing after the
\* analysis, ends with the video completed and the workflow analyzed.
C12_ThirdModelAnswers ==
    FallbackToThird =>
        /\ job.pc # "gemini" =>
               /\ job.tried = 3
               /\ job.steps = StepsOf(3, Len(job.steps))
        /\ \A i \in 1..Len(job.results) : job.results[i].action.model = 3
        /\ \A i \in 1..Len(stepRows) : stepRows[i].action.model = 3
        /\ (JobEnded /\ RestSucceeded) =>
               /\ job.pc = "done"
               /\ video.status = "completed" /\ workflow.status = "analyzed"
               /\ Len(stepRows) = Len(job.steps)

\* a job completed with the rows of the third model's steps after two 503s
C12_Witness ==
    /\ FallbackToThird /\ JobEnded
    /\ video.status = "completed" /\ workflow.status = "analyzed"
    /\ Len(stepRows) = MaxSteps
    /\ stepRows[1].action = [model |-> 3, no |-> 1]
    /\ Cardinality({i \in 1..Len(trail) : trail[i].op = "gemini"}) = 3

\* C13: in the loop over the models a failure that is not a 503, a response
\* that does not parse or that lacks a steps array included, ends the analysis
\* at once with that error, and no further model is tried: only a 503 leads to
\* the next model.
C13_OnlyUnavailableFallsBack ==
    /\ \A m \in 1..job.tried :
           m < job.tried => job.answers[m].kind = "unavailable"
    /\ (job.pc = "gemini" /\ job.tried > 0) =>
           job.answers[job.tried].kind = "unavailable"
    /\ (job.pc = "cleanupFrames" /\ job.tried > 0) =>
           job.error = job.answers[job.tried].kind

\* the frames are uploaded and the steps merged with the URLs
Merged == job.frames > 0 /\ Len(job.urls) = job.frames

\* C14: steps are merged with screenshots by index: step i carries the URL
\* uploaded for frame i when that upload succeeded, and no screenshot when the
\* upload of frame i failed or when there is no frame i.
C14_MergedByIndex ==
    Merged =>
        /\ Len(job.results) = Len(job.steps)
        /\ \A i \in 1..Len(job.results) :
               job.results[i].screenshot_url =
                   IF i <= Len(job.urls) THEN job.urls[i] ELSE 0

Count(op) == Cardinality({i \in 1..Len(trail) : trail[i].op = op})

\* op1 was performed, and before op2 if that was performed too
Before(op1, op2) ==
    \E i \in 1..Len(trail) :
        /\ trail[i].op = op1
        /\ \A j \in 1..Len(trail) : trail[j].op = op2 => i < j

\* control is back in the caller of performAIAnalysis
Returned ==
    job.pc \in {"insert", "updateWorkflow", "updateVideo", "catchWorkflow",
                "catchVideo", "done", "rejected"}

\* C15: on every exit path of performAIAnalysis, if the download succeeded its
\* cleanup is invoked exactly once, and if the frame extraction succeeded its
\* cleanup is invoked exactly once and before the video's; both have run
\* before control is back in the caller, and a failure of the frames' cleanup
\* does not prevent the video's.
C15_CleanupOnEveryExit ==
    /\ Count("cleanupVideo") <= 1 /\ Count("cleanupFrames") <= 1
    /\ Called("cleanupVideo") => Did("download")
    /\ Called("cleanupFrames") => Did("extract")
    /\ (Returned /\ Did("download")) => Count("cleanupVideo") = 1
    /\ (Returned /\ Did("extract")) =>
           /\ Count("cleanupFrames") = 1
           /\ Before("cleanupFrames", "cleanupVideo")
    /\ (Returned /\ Failed("cleanupFrames")) => Called("cleanupVideo")

\* the frames' cleanup failed after a successful analysis, the video's ran
\* after it, and the caller got the cleanup's error
C15_Witness ==
    /\ Returned /\ Failed("cleanupFrames") /\ Did("gemini")
    /\ Count("cleanupVideo") = 1 /\ Before("cleanupFrames", "cleanupVideo")
    /\ job.error = Wrap("cleanup failed")

\* C16: every error raised inside a job is caught at the job's boundary and
\* turned into the error/pending status: no error leaves the background
\* task, and a job that has ended has its video in status completed or error,
\* also when a database write of the job or of its catch block fails.
C16_NoErrorEscapes ==
    /\ job.pc # "rejected"
    /\ (JobEnded /\ video.exists) => video.status \in {"completed", "error"}

(***************************************************************************)
(* Claims about extractJson (SpecJson).                                    *)
(***************************************************************************)
\* C17: for a response text that holds a valid JSON object with a steps array,
\* as a fenced block, as bare JSON or as JSON with prose around it,
\* extractJson returns the value the object parses to, and the three forms of
\* the same object give equal results.
C17_RoundTrip ==
    parse.pc = "extracted" =>
        /\ JsonParse(parse.object).ok
        /\ \A form \in Forms : parse.result[form] = JsonParse(parse.object)
        /\ \A f1, f2 \in Forms : parse.result[f1] = parse.result[f2]

(***************************************************************************)
(* Claims about interleaved guard calls (SpecRace).                        *)
(***************************************************************************)
\* the two calls were both let through by their checks on the last attempt
\* left in the window that ends at resetTime, and both have recorded
BothAdmittedOnLast(r1, r2) ==
    /\ r1 # r2
    /\ req[r1].user = req[r2].user
    /\ req[r1].pc = "returned" /\ req[r2].pc = "returned"
    /\ req[r1].remainingAttempts = 1 /\ req[r2].remainingAttempts = 1
    /\ req[r1].resetTime = req[r2].resetTime

\* C18: when the check and the record of two guard calls of an actor are
\* separate steps and both checks run before either record, both calls are
\* admitted on the last attempt left of the window, and once both have
\* recorded the window's entry counts N + 1: more than N attempts are
\* admitted in one window and a stored count above N is reached.
C18_RaceAdmitsBoth ==
    /\ \A r1, r2 \in Reqs :
           (/\ BothAdmittedOnLast(r1, r2)
            /\ req[r1].user \in DOMAIN rateLimitStore
            /\ rateLimitStore[req[r1].user].firstAttempt + WINDOW_MS
                   = req[r1].resetTime)
           => rateLimitStore[req[r1].user].count = MAX_ATTEMPTS + 1

\* two calls were admitted on the last attempt of a window, whose entry,
\* still within the window, counts more than N attempts
C18_Witness ==
    \E r1, r2 \in Reqs :
        /\ BothAdmittedOnLast(r1, r2)
        /\ req[r1].user \in DOMAIN rateLimitStore
        /\ rateLimitStore[req[r1].user].count > MAX_ATTEMPTS
        /\ ~IsExpired(rateLimitStore[req[r1].user], now)

C20_SweepUnobservable ==
    last.op \in {"check", "guard"} =>
        LET result == [allowed |-> last.allowed,
                       remainingAttempts |-> last.remainingAttempts,
                       resetTime |-> last.resetTime,
                       thrown |-> last.thrown]
        IN result = shadow.lastNever /\ result = shadow.lastAlways

\* a check let an actor through whose used-up entry, past its window, is
\* swept from one store and still held by another
C20_Witness ==
    \E u \in DOMAIN shadow.never \ DOMAIN shadow.always :
        /\ last.op = "check" /\ last.userId = u /\ last.allowed
        /\ shadow.never[u].count >= MAX_ATTEMPTS
        /\ shadow.lastNever = shadow.lastAlways

(***************************************************************************)
(* Claims about what check, record and the guard do to an entry (Spec).    *)
(***************************************************************************)
\* the actor has an entry whose age is within W
InItsWindow(u) ==
    u \in DOMAIN rateLimitStore /\ now - rateLimitStore[u].firstAttempt <= WINDOW_MS

\* C21: for an actor with an entry whose age is within W, check returns
\* allowed = (count < N), remaining = max(0, N - count) and resetAt =
\* firstAttempt + W; for an absent or expired entry it returns allowed = true,
\* remaining = N and resetAt = now + W.
C21_CheckResult ==
    [][(now' = now /\ last'.op = "check") =>
          LET u == last'.userId
          IN IF InItsWindow(u)
             THEN /\ last'.allowed = (rateLimitStore[u].count < MAX_ATTEMPTS)
                  /\ last'.remainingAttempts =
                         (IF MAX_ATTEMPTS - rateLimitStore[u].count > 0
                          THEN MAX_ATTEMPTS - rateLimitStore[u].count ELSE 0)
                  /\ last'.resetTime = rateLimitStore[u].firstAttempt + WINDOW_MS
             ELSE /\ last'.allowed = TRUE
                  /\ last'.remainingAttempts = MAX_ATTEMPTS
                  /\ last'.resetTime = now + WINDOW_MS]_vars

\* a check of an actor whose entry, within its window, counts more than N
C21_Witness ==
    \E u \in Actors :
        /\ last.op = "check" /\ last.userId = u
        /\ InItsWindow(u) /\ rateLimitStore[u].count > MAX_ATTEMPTS
        /\ ~last.allowed /\ last.remainingAttempts = 0
        /\ last.resetTime = rateLimitStore[u].firstAttempt + WINDOW_MS

\* C22: record on an absent or expired entry puts {count: 1, firstAttempt:
\* now} in its place; on an entry within its window it adds exactly 1 to count
\* and leaves firstAttempt as it is, so the window is fixed from its first
\* attempt; the entries of the other actors are unchanged.
C22_RecordEffect ==
    [][(now' = now /\ last'.op = "record") =>
          LET u == last'.userId
          IN /\ u \in DOMAIN rateLimitStore'
             /\ IF InItsWindow(u)
                THEN /\ rateLimitStore'[u].count = rateLimitStore[u].count + 1
                     /\ rateLimitStore'[u].firstAttempt =
                            rateLimitStore[u].firstAttempt
                ELSE rateLimitStore'[u] = [count |-> 1, firstAttempt |-> now]
             /\ DOMAIN rateLimitStore' = DOMAIN rateLimitStore \cup {u}
             /\ \A key \in DOMAIN rateLimitStore \ {u} :
                    rateLimitStore'[key] = rateLimitStore[key]]_vars

\* a record made at the last instant of a window was added to that window
C22_Witness ==
    \E u \in Actors :
        /\ last.op = "record" /\ last.userId = u
        /\ u \in DOMAIN rateLimitStore
        /\ rateLimitStore[u].count >= 2
        /\ now = rateLimitStore[u].firstAttempt + WINDOW_MS

\* C23: in every reachable state every stored entry has a count of at least 1
\* that equals, and so does not exceed, the number of record calls made for
\* the actor at or after the entry's firstAttempt and after the actor's last
\* reset.
C23_CountIsRecordsSinceFirst ==
    \A u \in DOMAIN rateLimitStore :
        /\ rateLimitStore[u].count >= 1
        /\ rateLimitStore[u].count =
               Cardinality({i \in 1..Len(recLog[u]) :
                               recLog[u][i] >= rateLimitStore[u].firstAttempt})

\* an entry counts the attempts of its own window and not the ones of the
\* window before it
C23_Witness ==
    \E u \in DOMAIN rateLimitStore :
        /\ rateLimitStore[u].count >= 2
        /\ Len(recLog[u]) > rateLimitStore[u].count

\* C26: a guard call that is rejected leaves the actor's entry, count and
\* firstAttempt, as it was and records nothing (the sweep of its check may
\* remove expired entries of others), so rejected attempts do not extend the
\* lockout: a guard call is rejected only within firstAttempt + W of the
\* blocking entry and is let through once the clock is past it.
C26_RejectionChangesNothing ==
    [][(now' = now /\ last'.op = "guard") =>
          LET u == last'.userId
          IN /\ last'.thrown =>
                    /\ InItsWindow(u)
                    /\ rateLimitStore[u].count >= MAX_ATTEMPTS
                    /\ u \in DOMAIN rateLimitStore'
                    /\ rateLimitStore'[u] = rateLimitStore[u]
                    /\ recLog' = recLog
                    /\ DOMAIN rateLimitStore' \subseteq DOMAIN rateLimitStore
                    /\ \A key \in DOMAIN rateLimitStore' :
                           rateLimitStore'[key] = rateLimitStore[key]
                    /\ \A key \in DOMAIN rateLimitStore \ DOMAIN rateLimitStore' :
                           now - rateLimitStore[key].firstAttempt > WINDOW_MS
             /\ (u \in DOMAIN rateLimitStore /\ ~InItsWindow(u)) =>
                    ~last'.thrown]_vars

\* a guard call was rejected at the last instant of the blocking window,
\* whose entry still counts N
C26_Witness ==
    \E u \in Actors :
        /\ last.op = "guard" /\ last.userId = u /\ last.thrown
        /\ u \in DOMAIN rateLimitStore
        /\ rateLimitStore[u].count = MAX_ATTEMPTS
        /\ now = rateLimitStore[u].firstAttempt + WINDOW_MS

\* C27: check and record use the same expiry test, age > W: at any instant
\* check reports a fresh window (remaining = N, resetAt = now + W) for an
\* actor exactly when a record at that instant would start a new window with
\* count 1, and reports the existing window exactly when record would add to
\* it; an entry whose age is exactly W is still in its window for both.
C27_SameExpiryTest ==
    \A u \in Actors :
        LET c == checkPasswordChangeRateLimit(rateLimitStore, now, u)
            recorded == recordPasswordChangeAttempt(rateLimitStore, now, u)
            fresh == /\ c.allowed /\ c.remainingAttempts = MAX_ATTEMPTS
                     /\ c.resetTime = now + WINDOW_MS
            existing == /\ u \in DOMAIN rateLimitStore
                        /\ c.resetTime = rateLimitStore[u].firstAttempt + WINDOW_MS
                        /\ c.remainingAttempts < MAX_ATTEMPTS
            starts == recorded[u] = [count |-> 1, firstAttempt |-> now]
            adds == /\ u \in DOMAIN rateLimitStore
                    /\ recorded[u] = [rateLimitStore[u] EXCEPT !.count = @ + 1]
        IN /\ fresh <=> starts
           /\ existing <=> adds
           /\ fresh # existing
           /\ (u \in DOMAIN rateLimitStore
                  /\ now - rateLimitStore[u].firstAttempt = WINDOW_MS) => existing
           /\ (u \in DOMAIN rateLimitStore
                  /\ now - rateLimitStore[u].firstAttempt > WINDOW_MS) => fresh

\* a check and then a record at the last instant of a window both took the
\* entry as within its window
C27_Witness ==
    \E u \in DOMAIN rateLimitStore :
        /\ now - rateLimitStore[u].firstAttempt = WINDOW_MS
        /\ last.op = "record" /\ last.userId = u
        /\ rateLimitStore[u].count >= 2
        /\ recLog[u][Len(recLog[u])] = now

(***************************************************************************)
(* Claims about the order of a job's operations (SpecJob).                 *)
(***************************************************************************)
\* the operations of a job in the order of the code
Pipeline == <<"setProcessing", "findVideo", "download", "extract", "gemini",
              "upload", "insert", "updateWorkflow", "updateVideo">>

Rank(op) == CHOOSE k \in 1..Len(Pipeline) : Pipeline[k] = op

IsPipelineOp(op) == \E k \in 1..Len(Pipeline) : Pipeline[k] = op

\* the operation at position i of the trail failed its stage: an upload that
\* fails gives a null URL, and the model analysis fails when the loop over the
\* models has ended on a call that failed
FailedStageAt(i) ==
    /\ ~trail[i].ok
    /\ IsPipelineOp(trail[i].op)
    /\ trail[i].op # "upload"
    /\ trail[i].op = "gemini" =>
           /\ job.pc # "gemini"
           /\ \A j \in (i + 1)..Len(trail) : trail[j].op # "gemini"

\* C24: the operations of a job happen in this order, each starting only
\* after the one before it succeeded: video set to processing with progress
\* 10, video row read, download, frame extraction, model analysis, screenshot
\* uploads, one bulk insert, workflow set to analyzed, video set to completed;
\* once one has failed no later one is performed, the cleanups and the
\* updates of the error status apart.
C24_StrictOrder ==
    /\ \A i, j \in 1..Len(trail) :
           (i < j /\ IsPipelineOp(trail[i].op) /\ IsPipelineOp(trail[j].op)) =>
               /\ Rank(trail[i].op) <= Rank(trail[j].op)
               /\ Rank(trail[i].op) = Rank(trail[j].op) =>
                      trail[i].op \in {"gemini", "upload"}
               /\ ~FailedStageAt(i)
    /\ \A j \in 1..Len(trail) :
           (IsPipelineOp(trail[j].op) /\ Rank(trail[j].op) > 1) =>
               \/ \E i \in 1..(j - 1) :
                      /\ trail[i].op = Pipeline[Rank(trail[j].op) - 1]
                      /\ trail[i].ok \/ trail[i].op = "upload"
               \/ /\ trail[j].op \in {"gemini", "upload"}
                  /\ trail[j - 1].op = trail[j].op
    /\ \A i \in 1..Len(trail) :
           FailedStageAt(i) =>
               job.pc \in {"cleanupFrames", "cleanupVideo", "catchWorkflow",
                           "catchVideo", "done", "rejected"}
    /\ (job.pc = "findVideo" /\ video.exists) =>
           video.status = "processing" /\ video.progress = 10

\* a job went through all nine operations, the third model answering and one
\* upload failing
C24_Witness ==
    /\ job.pc = "done" /\ Did("updateVideo")
    /\ \A k \in 1..Len(Pipeline) : Did(Pipeline[k])
    /\ job.tried = NumModels /\ Failed("upload")

\* the position in the trail of the upload of frame i
UploadAt(i) ==
    (CHOOSE k \in 1..Len(trail) :
        trail[k].op = "upload" /\ \A l \in 1..(k - 1) : trail[l].op # "upload")
    + i - 1

\* C25: uploadFramesToStorage attempts the upload of every frame whatever
\* failed before and never throws: it returns one entry per frame, in the
\* order of the frames, entry i being the URL of frame i when its read and
\* upload succeeded and null otherwise; a failed upload does not make the job
\* fail.
C25_UploadNeverThrows ==
    /\ Len(job.urls) = Count("upload") /\ Len(job.urls) <= job.frames
    /\ \A i \in 1..Len(job.urls) :
           /\ trail[UploadAt(i)].op = "upload"
           /\ job.urls[i] = IF trail[UploadAt(i)].ok THEN i ELSE 0
    /\ job.pc = "upload" => Len(job.urls) < job.frames
    /\ (Did("gemini") /\ job.pc # "upload") => Len(job.urls) = job.frames
    /\ (Did("gemini") /\ job.pc \in {"cleanupFrames", "cleanupVideo"}
          /\ ~Failed("cleanupFrames")) => job.error = "none"
    /\ (JobEnded /\ Did("gemini") /\ RestSucceeded) =>
           job.pc = "done" /\ video.status = "completed"

\* the upload of every frame failed, each was attempted, and the job
\* completed with steps that carry no screenshot
C25_Witness ==
    /\ JobEnded /\ video.status = "completed"
    /\ job.frames = MaxFrames /\ Count("upload") = MaxFrames
    /\ ~Did("upload")
    /\ Len(stepRows) >= 1
    /\ \A i \in 1..Len(stepRows) : stepRows[i].screenshot_url = 0

\* C28: a job inserts AnalysisStep rows at most once, in one bulk insert made
\* only after the model analysis and the uploads have finished; the rows
\* carry the job's workflow id and the sequence numbers 1..n, contiguous,
\* distinct and in the order of the model's steps, one row per returned step.
C28_OneBulkInsert ==
    /\ Count("insert") <= 1
    /\ Called("insert") =>
           /\ Did("gemini") /\ Count("upload") = job.frames
           /\ Before("gemini", "insert") /\ Before("upload", "insert")
    /\ ~Did("insert") => stepRows = << >>
    /\ Did("insert") =>
           /\ Len(stepRows) = Len(job.steps)
           /\ \A i \in 1..Len(stepRows) :
                  /\ stepRows[i].workflow_id = WorkflowId
                  /\ stepRows[i].sequence_no = i
                  /\ stepRows[i].action = job.steps[i]

\* the rows of a model answer of the greatest length are stored
C28_Witness ==
    /\ Did("insert") /\ Len(stepRows) = MaxSteps
    /\ stepRows[MaxSteps].sequence_no = MaxSteps
    /\ stepRows[MaxSteps].action = job.steps[MaxSteps]

(***************************************************************************)
(* Claims about the team invitations (SpecInvite).                         *)
(***************************************************************************)
\* the tokens of a team and an email that have not expired
LiveTokens(invites, teamId, email, t) ==
    {i \in 1..Len(invites) :
        /\ invites[i].team_id = teamId
        /\ invites[i].email = email
        /\ invites[i].expires_at > t}

\* the step is a POST members request
IsInviteStep == today' = today /\ inviteLast'.status # 0

\* C29: after any sequence of invitations made one at a time, a team and an
\* email have at most one token that expires in the future; an invitation
\* that is answered 201 has set expires_at of every earlier token of the pair
\* to the current time, left the tokens of the other pairs alone and appended
\* one token that expires 7 days later; an admin's invitation of an email
\* whose member row is active is answered 409 and changes no member row and
\* no token.
C29_OneLiveToken ==
    [][ /\ \A t \in Teams, e \in Emails : 
               Cardinality(LiveTokens(workTeamInvites', t, e, today')) <= 1
        /\ (IsInviteStep /\ inviteLast'.status = 201) =>
              LET t == inviteLast'.teamId
                  e == inviteLast'.email
                  n == Len(workTeamInvites)
              IN /\ Len(workTeamInvites') = n + 1
                 /\ \A i \in 1..n :
                       workTeamInvites'[i] =
                          IF workTeamInvites[i].team_id = t
                             /\ workTeamInvites[i].email = e
                          THEN [workTeamInvites[i] EXCEPT !.expires_at = today]
                          ELSE workTeamInvites[i]
                 /\ workTeamInvites'[n + 1].team_id = t
                 /\ workTeamInvites'[n + 1].email = e
                 /\ workTeamInvites'[n + 1].expires_at = today + InviteDays
                 /\ workTeamInvites'[n + 1].token = inviteLast'.token
                 /\ \A i \in 1..n :
                       workTeamInvites[i].token # inviteLast'.token
                 /\ LiveTokens(workTeamInvites', t, e, today') = {n + 1}
        /\ (IsInviteStep /\ inviteLast'.status = 409) =>
              /\ workTeamMembers[<<inviteLast'.teamId, inviteLast'.email>>].status
                    = "active"
              /\ UNCHANGED <<workTeamMembers, workTeamInvites>>
        /\ (IsInviteStep /\ inviteLast'.status = 201)
              => workTeamMembers[<<inviteLast'.teamId, inviteLast'.email>>].status
                    # "active"
      ]_vars

\* an email was invited again while its earlier token was still good: the
\* earlier token has expired and the new one has not
C29_Witness ==
    /\ inviteLast.status = 201
    /\ \E i, j \in 1..Len(workTeamInvites) :
          /\ i < j
          /\ workTeamInvites[i].team_id = workTeamInvites[j].team_id
          /\ workTeamInvites[i].email = workTeamInvites[j].email
          /\ workTeamInvites[i].expires_at = today /\ today > 0
          /\ workTeamInvites[j].expires_at = today + InviteDays
    /\ \E t \in Teams, e \in Emails :
          workTeamMembers[<<t, e>>].status = "active"

(***************************************************************************)
(* Claims about the quotas (SpecQuota).                                    *)
(***************************************************************************)
\* the step is a request of upload-url that reached the quota check
ReachedCheck ==
    /\ quotaLast'.op = "uploadUrl"
    /\ quotaLast'.status \in {200, 500}
    /\ quotaLast'.thrown # "form"

\* C30: checkStorageQuota throws a quota error exactly when the size is above
\* 50 MB, or the query of the stored total answers and the total plus the
\* size is above 100 MB (a size of 50 MB and a projected total of 100 MB are
\* accepted); checkWorkflowQuota throws one exactly when the owner has 7
\* workflows or more; neither changes a row; and upload-url issues no signed
\* URL when checkStorageQuota throws.
C30_QuotaChecks ==
    [][ /\ UNCHANGED <<workVideos, workWorkflows>>
        /\ ReachedCheck =>
              LET size == quotaLast'.size
                  total == currentUsage(quotaLast'.userId)
                  tooLarge == ~size.nan /\ size.value > MAX_FILE_SIZE
                  tooMuch == ~size.nan /\ total + size.value > MAX_STORAGE_BYTES
              IN /\ quotaLast'.thrown = "fileSize" <=> tooLarge
                 /\ quotaLast'.thrown = "storage" <=>
                       (~tooLarge /\ quotaLast'.queryOk /\ tooMuch)
                 /\ quotaLast'.thrown = "query" <=>
                       (~tooLarge /\ ~quotaLast'.queryOk)
                 /\ quotaLast'.thrown # "none" =>
                       /\ ~quotaLast'.url
                       /\ quotaLast'.status = 500
                       /\ signedUrls' = signedUrls
                 /\ quotaLast'.url =>
                       /\ quotaLast'.thrown = "none"
                       /\ signedUrls' = signedUrls \cup {quotaLast'.userId}
        /\ quotaLast'.op = "checkWorkflowQuota" =>
              /\ quotaLast'.thrown = "workflowCount" <=>
                    (/\ quotaLast'.queryOk
                     /\ workWorkflows[quotaLast'.userId] >= MAX_WORKFLOW_COUNT)
              /\ quotaLast'.thrown = "none" <=>
                    (/\ quotaLast'.queryOk
                     /\ workWorkflows[quotaLast'.userId] < MAX_WORKFLOW_COUNT)
              /\ signedUrls' = signedUrls
      ]_vars

\* a file of exactly 50 MB that brings the owner's total to exactly 100 MB
\* was accepted and its URL issued
C30_Witness ==
    /\ quotaLast.op = "uploadUrl" /\ quotaLast.url
    /\ quotaLast.size = Num(MAX_FILE_SIZE)
    /\ currentUsage(quotaLast.userId) + MAX_FILE_SIZE = MAX_STORAGE_BYTES
    /\ quotaLast.userId \in signedUrls

====
